---- MODULE Spec2Model ----
(***************************************************************************)
(* Pilgrim Map Kit: the track profile (parseGPXToSeries), the nearest      *)
(* index locator (kmToIndex) and the chart/map cursor handlers of          *)
(* createPilgrimMap.                                                       *)
(* Further specifications: SpecLoader (loadScriptOnce and ensureLibs under  *)
(* concurrent creation calls), SpecClimate (the unit, tab and resize       *)
(* handlers of the climate chart) and SpecMonths (groupConsecutiveMonths). *)
(*                                                                         *)
(* Conventions of the model                                                *)
(*  - JavaScript arrays are sequences; At(a, i) reads the 0-based index i. *)
(*  - Track points lie on the equator at whole grid longitudes, so the     *)
(*    great-circle distance of two points is the absolute difference of    *)
(*    their longitudes, measured in grid steps.                            *)
(*  - An elevation is a float record [k, v]: k = "num" with the value v,   *)
(*    k = "nan" or k = "inf".  Feet are kept in units of 1/100000 ft so    *)
(*    that the factor 3.28084 is the integer FtFactor.                     *)
(***************************************************************************)
EXTENDS Integers, Sequences, FiniteSets, TLC

\* createPilgrimMap: one creation call and the widget it builds.
VARIABLES pc, gpx, series, query, idx, cursorMarker, activeEls, mapView, errBox,
          units, map, chart, result

\* The page-wide script cache with its concurrent callers, the climate
\* chart widget, and one call of groupConsecutiveMonths.
VARIABLES loader, climate, grouping

mapVars == <<pc, gpx, series, query, idx, cursorMarker, activeEls, mapView, errBox,
             units, map, chart, result>>

vars == <<mapVars, loader, climate, grouping>>

(* ------------------------------ bounds --------------------------------- *)
MaxSegs == 3
MaxPts == 3
MaxLon == 3
MaxElePts == 2
MaxEle == 1
PxMargin == 1
MaxCalls == 3

(* ------------------------- program constants --------------------------- *)
FtFactor == 328084

(* ------------------------------ helpers -------------------------------- *)
At(a, i) == a[i + 1]

Abs(x) == IF x < 0 THEN 0 - x ELSE x

Max(a, b) == IF a >= b THEN a ELSE b

Min(a, b) == IF a <= b THEN a ELSE b

Num(v) == [k |-> "num", v |-> v]

NaN == [k |-> "nan", v |-> 0]

Infinity == [k |-> "inf", v |-> 0]

isFinite(f) == f.k = "num"

\* f * c and f / c on floats: NaN and Infinity are absorbing.
FMul(f, c) == IF f.k = "num" THEN Num(f.v * c) ELSE f

FDiv(f, c) == IF f.k = "num" THEN Num(f.v \div c) ELSE f

\* parseFloat(pt.getElementsByTagName('ele')[0]?.textContent ?? '0'):
\* a reading is "none" (no <ele> element), "text" (non-numeric or empty
\* text), "inf" (the text Infinity) or a whole number of metres.
parseEle(r) ==
  IF r.k = "none" THEN Num(0)
  ELSE IF r.k = "text" THEN NaN
  ELSE IF r.k = "inf" THEN Infinity
  ELSE Num(r.v)

\* Both points have latitude 0: the haversine distance is the arc between
\* the two longitudes.
haversineMiles(a, b) == Abs(b.lon - a.lon)

(* --------------------------- parseGPXToSeries -------------------------- *)
ptsInTrk(trk) ==
  [j \in 1..Len(trk) |-> [lat |-> trk[j].lat, lon |-> trk[j].lon, ele |-> parseEle(trk[j].ele)]]

RECURSIVE flattenPts(_, _)
flattenPts(trks, n) ==
  IF n = 0 THEN <<>> ELSE flattenPts(trks, n - 1) \o ptsInTrk(trks[n])

\* stageEndIdx.push(pts.length - 1) after each trk
stageEndIdxOf(trks) ==
  [s \in 1..Len(trks) |-> Len(flattenPts(trks, s)) - 1]

RECURSIVE buildDistMi(_, _)
buildDistMi(pts, n) ==
  IF n <= 1 THEN <<0>>
  ELSE LET prev == buildDistMi(pts, n - 1)
       IN Append(prev, prev[n - 1] + haversineMiles(pts[n - 1], pts[n]))

RECURSIVE buildElevFt(_, _)
buildElevFt(pts, n) ==
  IF n <= 1
  THEN << FMul(IF Len(pts) >= 1 THEN pts[1].ele ELSE Num(0), FtFactor) >>
  ELSE LET prev == buildElevFt(pts, n - 1)
           ele == IF isFinite(pts[n].ele) THEN pts[n].ele ELSE FDiv(prev[n - 1], FtFactor)
       IN Append(prev, FMul(ele, FtFactor))

\* Variant: the filter is off by one (idx > 1).
stageScatterOf_gt1(stageEndIdx, distMi, elevFt) ==
  LET kept == SelectSeq(stageEndIdx, LAMBDA i : i > 1)
  IN [s \in 1..Len(kept) |->
        [x |-> At(distMi, kept[s]), y |-> At(elevFt, kept[s]),
         isFinal |-> (s - 1 = Len(stageEndIdx) - 1)]]

\* Variant: the end of the last segment gets no marker.
stageScatterOf_dropLast(stageEndIdx, distMi, elevFt) ==
  LET kept == SelectSeq(SubSeq(stageEndIdx, 1, Len(stageEndIdx) - 1), LAMBDA i : i > 0)
  IN [s \in 1..Len(kept) |->
        [x |-> At(distMi, kept[s]), y |-> At(elevFt, kept[s]),
         isFinal |-> (s - 1 = Len(kept) - 1)]]

stageScatterOf(stageEndIdx, distMi, elevFt) ==
  LET kept == SelectSeq(stageEndIdx, LAMBDA i : i > 0)
  IN [s \in 1..Len(kept) |->
        [x |-> At(distMi, kept[s]), y |-> At(elevFt, kept[s]),
         isFinal |-> (s - 1 = Len(stageEndIdx) - 1)]]

parseGPXToSeries(trks) ==
  LET pts == flattenPts(trks, Len(trks))
      distMi == buildDistMi(pts, Len(pts))
      elevFt == buildElevFt(pts, Len(pts))
  IN [pts |-> pts, distMi |-> distMi, elevFt |-> elevFt,
      totalMi |-> distMi[Len(distMi)],
      stageScatter |-> stageScatterOf(stageEndIdxOf(trks), distMi, elevFt)]

(* ------------------------------ kmToIndex ------------------------------ *)
RECURSIVE lowerBound(_, _, _, _)
lowerBound(distMi, mi, lo, hi) ==
  IF lo < hi
  THEN LET mid == (lo + hi) \div 2
       IN IF At(distMi, mid) < mi
          THEN lowerBound(distMi, mi, mid + 1, hi)
          ELSE lowerBound(distMi, mi, lo, mid)
  ELSE lo

\* Variant: the lower bound is returned without comparing with i1.
kmToIndex_i2(distMi, mi) == lowerBound(distMi, mi, 0, Len(distMi) - 1)

\* Variant: the comparison is strict, an exact tie goes to i2.
kmToIndex_strict(distMi, mi) ==
  LET lo == lowerBound(distMi, mi, 0, Len(distMi) - 1)
      i2 == lo
      i1 == Max(0, lo - 1)
  IN IF Abs(At(distMi, i1) - mi) < Abs(At(distMi, i2) - mi) THEN i1 ELSE i2

RECURSIVE upperBound(_, _, _, _)
upperBound(distMi, mi, lo, hi) ==
  IF lo < hi
  THEN LET mid == (lo + hi) \div 2
       IN IF At(distMi, mid) <= mi
          THEN upperBound(distMi, mi, mid + 1, hi)
          ELSE upperBound(distMi, mi, lo, mid)
  ELSE lo

\* Variant: the search is an upper bound (<= in the loop test).
kmToIndex_upper(distMi, mi) ==
  LET lo == upperBound(distMi, mi, 0, Len(distMi) - 1)
      i2 == lo
      i1 == Max(0, lo - 1)
  IN IF Abs(At(distMi, i1) - mi) <= Abs(At(distMi, i2) - mi) THEN i1 ELSE i2

kmToIndex(distMi, mi) ==
  LET lo == lowerBound(distMi, mi, 0, Len(distMi) - 1)
      i2 == lo
      i1 == Max(0, lo - 1)
  IN IF Abs(At(distMi, i1) - mi) <= Abs(At(distMi, i2) - mi) THEN i1 ELSE i2

(* ------------------------------- state --------------------------------- *)
NoSeries == [pts |-> <<>>, distMi |-> <<>>, elevFt |-> <<>>, totalMi |-> 0, stageScatter |-> <<>>]

NoMarker == [made |-> FALSE, ll |-> <<0, 0>>, opacity |-> 0]

NoView == [panned |-> FALSE, ll |-> <<0, 0>>]

NoQuery == 0 - 1

NoChart == [built |-> FALSE, xTitle |-> "", yTitle |-> ""]

Idle == [on |-> FALSE]

(* --------------------------- track documents --------------------------- *)
RECURSIVE SumTo(_, _)
SumTo(shape, n) == IF n = 0 THEN 0 ELSE SumTo(shape, n - 1) + shape[n]

Shapes(maxSegs, maxPts) ==
  UNION { { sh \in [1..k -> 0..maxPts] : SumTo(sh, k) <= maxPts } : k \in 0..maxSegs }

MkDoc(shape, lons, eles) ==
  [s \in 1..Len(shape) |->
     [j \in 1..shape[s] |->
        [lat |-> 0, lon |-> lons[SumTo(shape, s - 1) + j], ele |-> eles[SumTo(shape, s - 1) + j]]]]

Reading(v) == [k |-> "num", v |-> v]

Readings == { [k |-> "none", v |-> 0], [k |-> "text", v |-> 0], [k |-> "inf", v |-> 0] }
              \cup { Reading(v) : v \in 0..MaxEle }

\* Single-track documents over the longitude grid (the walk may stand still
\* or turn back), every point with the reading 1 m.
GeoDocs ==
  UNION { { MkDoc(<<n>>, lons, [i \in 1..n |-> Reading(1)]) : lons \in [1..n -> 0..MaxLon] } :
            n \in 0..MaxPts }

\* Single-track documents advancing one grid step per point, with every
\* kind of reading.
EleDocs ==
  UNION { { MkDoc(<<n>>, [i \in 1..n |-> i - 1], eles) : eles \in [1..n -> Readings] } :
            n \in 0..MaxElePts }

\* Documents of every shape (numbers of trk and of trkpt per trk, empty trk
\* included), advancing one grid step per point.
ShapeDocs ==
  { MkDoc(sh, [i \in 1..SumTo(sh, Len(sh)) |-> i - 1], [i \in 1..SumTo(sh, Len(sh)) |-> Reading(i % 2)]) :
      sh \in Shapes(MaxSegs, MaxPts) }

\* Scenario B: three segments of 5, 4 and 3 points, flat indices 0..11.
ScenarioB == MkDoc(<<5, 4, 3>>, [i \in 1..12 |-> i - 1], [i \in 1..12 |-> Reading(i % 2)])

Docs == GeoDocs \cup EleDocs \cup ShapeDocs \cup {ScenarioB}

(* ------------------------------ actions -------------------------------- *)
\* State of a creation call suspended at await ensureLibs(...): the DOM
\* skeleton is built, the error region is empty, gpx is the document the
\* gpxUrl serves, units is the units option.
Init ==
  /\ pc = "libs"
  /\ gpx \in Docs
  /\ units \in {"imperial", "metric"}
  /\ series = NoSeries
  /\ query = NoQuery
  /\ idx = NoQuery
  /\ cursorMarker = NoMarker
  /\ activeEls = <<>>
  /\ mapView = NoView
  /\ errBox = ""
  /\ map = FALSE
  /\ chart = NoChart
  /\ result = "pending"
  /\ loader = Idle
  /\ climate = Idle
  /\ grouping = Idle

\* Continuation of await ensureLibs(...): the promise rejects (a script
\* failed to load), or it resolves with a library global missing, or with
\* all of them; in the last case the map is created and the fetch of the
\* track document starts.
LibsDone ==
  /\ pc = "libs"
  /\ \E outcome \in {"loaded", "scriptError", "globalMissing"} :
       IF outcome = "loaded"
       THEN /\ pc' = "fetching"
            /\ map' = TRUE
            /\ result' = result
       ELSE /\ pc' = "rejected"
            /\ map' = map
            /\ result' = "rejected"
  /\ UNCHANGED <<gpx, series, query, idx, cursorMarker, activeEls, mapView, errBox, units, chart>>
  /\ UNCHANGED <<loader, climate, grouping>>

\* Continuation of await fetch(gpxUrl): a network error or a non-ok status
\* is thrown inside the try block, shown by the catch clause, and the call
\* returns { map, chart }.
FetchDone ==
  /\ pc = "fetching"
  /\ \E outcome \in {"ok", "status", "network"} :
       IF outcome = "ok"
       THEN /\ pc' = "fetched"
            /\ errBox' = errBox
            /\ result' = result
       ELSE /\ pc' = "fetchError"
            /\ errBox' = IF outcome = "status"
                         THEN "Map/Elevation error: Failed to fetch GPX (status)"
                         ELSE "Map/Elevation error: Failed to fetch"
            /\ result' = "returned"
  /\ UNCHANGED <<gpx, series, query, idx, cursorMarker, activeEls, mapView, units, map, chart>>
  /\ UNCHANGED <<loader, climate, grouping>>

\* Continuation of await res.text(): parseGPXToSeries(gpxText), the chart
\* construction and the attachment of the three pointer handlers; the
\* catch clause shows the error; the call returns { map, chart }.
Load ==
  /\ pc = "fetched"
  /\ IF Len(gpx) = 0
     THEN /\ pc' = "failed"
          /\ errBox' = "Map/Elevation error: No <trk> in GPX"
          /\ series' = series
          /\ chart' = chart
     ELSE /\ pc' = "ready"
          /\ series' = parseGPXToSeries(gpx)
          /\ errBox' = errBox
          /\ chart' = [built |-> TRUE, xTitle |-> "Distance (mi)", yTitle |-> "Elevation (ft)"]
  /\ result' = "returned"
  /\ UNCHANGED <<gpx, query, idx, cursorMarker, activeEls, mapView, units, map>>
  /\ UNCHANGED <<loader, climate, grouping>>

\* mousemove: updateFromEvent.  The x scale shows one distance unit per
\* pixel, from pixel 0 (value 0) to pixel totalMi.
updateFromEvent(px) ==
  /\ pc = "ready"
  /\ LET xLeft == 0
         xRight == series.totalMi
         xPx == Min(Max(px, xLeft), xRight)
         mi == xPx - xLeft
         i == kmToIndex(series.distMi, mi)
     IN /\ query' = mi
        /\ idx' = i
        /\ IF i >= Len(series.pts)
           THEN UNCHANGED <<cursorMarker, activeEls>>
           ELSE LET pt == At(series.pts, i)
                IN /\ cursorMarker' = [made |-> TRUE, ll |-> <<pt.lat, pt.lon>>, opacity |-> 1]
                   /\ activeEls' = << [datasetIndex |-> 0, index |-> i] >>
  /\ UNCHANGED <<pc, gpx, series, mapView, errBox, units, map, chart, result>>
  /\ UNCHANGED <<loader, climate, grouping>>

Move == \E px \in (0 - PxMargin)..(series.totalMi + PxMargin) : updateFromEvent(px)

\* Variant: the highlight of the chart is left in place.
Leave_keepHighlight ==
  /\ pc = "ready"
  /\ cursorMarker' = IF cursorMarker.made THEN [cursorMarker EXCEPT !.opacity = 0] ELSE cursorMarker
  /\ UNCHANGED <<pc, gpx, series, query, idx, activeEls, mapView, errBox, units, map, chart, result>>
  /\ UNCHANGED <<loader, climate, grouping>>

\* mouseleave
Leave ==
  /\ pc = "ready"
  /\ cursorMarker' = IF cursorMarker.made THEN [cursorMarker EXCEPT !.opacity = 0] ELSE cursorMarker
  /\ activeEls' = <<>>
  /\ UNCHANGED <<pc, gpx, series, query, idx, mapView, errBox, units, map, chart, result>>
  /\ UNCHANGED <<loader, climate, grouping>>

\* click
Click ==
  /\ pc = "ready"
  /\ mapView' = IF cursorMarker.made THEN [panned |-> TRUE, ll |-> cursorMarker.ll] ELSE mapView
  /\ UNCHANGED <<pc, gpx, series, query, idx, cursorMarker, activeEls, errBox, units, map, chart, result>>
  /\ UNCHANGED <<loader, climate, grouping>>

Next == LibsDone \/ FetchDone \/ Load \/ Move \/ Leave \/ Click

Spec == Init /\ [][Next]_vars

(* --------------------- loadScriptOnce / ensureLibs --------------------- *)
\* A creation call is an instance 1..MaxCalls of PilgrimMapKit.create on the
\* page; instances start in any order and at any time, also after others
\* have ended.  loader.cache[k] is the state of the promise that
\* PMK._scriptCache holds for the key k ("none": no entry), loader.appended[k]
\* the number of script elements appended for k.
LibKeys == {"leaflet", "leaflet-gpx", "chart"}

Calls == 1..MaxCalls

\* The state of a widget that is not part of the specification at hand.
MapOff ==
  /\ pc = "off"
  /\ gpx = <<>>
  /\ units = "imperial"
  /\ series = NoSeries
  /\ query = NoQuery
  /\ idx = NoQuery
  /\ cursorMarker = NoMarker
  /\ activeEls = <<>>
  /\ mapView = NoView
  /\ errBox = ""
  /\ map = FALSE
  /\ chart = NoChart
  /\ result = "pending"

\* Variant: the cache entry of a failed load is not reused.
loadScriptOnce_retryFailed(ld, key) ==
  IF ld.cache[key] \notin {"none", "failed"} THEN ld
  ELSE [ld EXCEPT !.cache[key] = "pending", !.appended[key] = @ + 1]

loadScriptOnce(ld, key) ==
  IF ld.cache[key] # "none" THEN ld
  ELSE [ld EXCEPT !.cache[key] = "pending", !.appended[key] = @ + 1]

ensureLibs(ld, wantsGPX, wantsChart) ==
  LET l1 == loadScriptOnce(ld, "leaflet")
      l2 == IF wantsGPX THEN loadScriptOnce(l1, "leaflet-gpx") ELSE l1
      l3 == IF wantsChart THEN loadScriptOnce(l2, "chart") ELSE l2
  IN l3

WantedKeys(wantsGPX, wantsChart) ==
  {"leaflet"} \cup (IF wantsGPX THEN {"leaflet-gpx"} ELSE {}) \cup (IF wantsChart THEN {"chart"} ELSE {})

InitLoader ==
  /\ MapOff
  /\ loader = [on |-> TRUE,
               cache |-> [k \in LibKeys |-> "none"],
               appended |-> [k \in LibKeys |-> 0],
               calls |-> [c \in Calls |-> [st |-> "idle", keys |-> {}]]]
  /\ climate = Idle
  /\ grouping = Idle

\* createPilgrimMap up to await ensureLibs(...): needsGPX = !!gpxUrl,
\* needsChart = !!gpxUrl && showElevation.
Create(c) ==
  /\ loader.calls[c].st = "idle"
  /\ \E gpxUrl \in BOOLEAN, showElevation \in BOOLEAN :
       LET needsGPX == gpxUrl
           needsChart == gpxUrl /\ showElevation
           ld == ensureLibs(loader, needsGPX, needsChart)
       IN loader' = [ld EXCEPT !.calls[c] = [st |-> "waiting", keys |-> WantedKeys(needsGPX, needsChart)]]
  /\ UNCHANGED <<mapVars, climate, grouping>>

\* s.onload of the script element of the key k
ScriptLoaded(k) ==
  /\ loader.cache[k] = "pending"
  /\ loader' = [loader EXCEPT !.cache[k] = "loaded"]
  /\ UNCHANGED <<mapVars, climate, grouping>>

\* s.onerror of the script element of the key k
ScriptError(k) ==
  /\ loader.cache[k] = "pending"
  /\ loader' = [loader EXCEPT !.cache[k] = "failed"]
  /\ UNCHANGED <<mapVars, climate, grouping>>

\* Promise.all(p) settles for the call c: rejected as soon as one of its
\* promises is rejected, fulfilled when all are fulfilled.
Settle(c) ==
  /\ loader.calls[c].st = "waiting"
  /\ \/ /\ \E k \in loader.calls[c].keys : loader.cache[k] = "failed"
        /\ loader' = [loader EXCEPT !.calls[c].st = "rejected"]
     \/ /\ \A k \in loader.calls[c].keys : loader.cache[k] = "loaded"
        /\ loader' = [loader EXCEPT !.calls[c].st = "resolved"]
  /\ UNCHANGED <<mapVars, climate, grouping>>

NextLoader ==
  \/ \E c \in Calls : Create(c)
  \/ \E k \in LibKeys : ScriptLoaded(k)
  \/ \E k \in LibKeys : ScriptError(k)
  \/ \E c \in Calls : Settle(c)

SpecLoader == InitLoader /\ [][NextLoader]_vars

(* ---------------------------- climate chart ---------------------------- *)
\* climate.units and climate.active are the closure variables units and
\* active of render, climate.media the viewport class the media queries
\* report, climate.drawn[p] the chart that the panel p currently shows.
Panels == {"temps", "precip"}

Medias == {"mobile", "tablet", "desktop"}

\* Nearest integer of a / b for a >= 0, b > 0.
RoundDiv(a, b) == (2 * a + b) \div (2 * b)

\* +f2c(f).toFixed(1), in tenths of a degree, for f >= 32
f2c(f) == RoundDiv((f - 32) * 50, 9)

\* Math.round(in2mm(i)) for whole inches i
in2mm(i) == RoundDiv(i * 254, 10)

computeLayout(media) ==
  [svgH |-> IF media = "mobile" THEN 420 ELSE IF media = "tablet" THEN 440 ELSE 460,
   perMonth |-> IF media = "mobile" THEN 116 ELSE IF media = "tablet" THEN 76 ELSE 72]

drawTemps(u, media, data) ==
  [unitLabel |-> IF u = "metric" THEN "degC" ELSE "degF",
   vals |-> IF u = "metric" THEN [i \in 1..Len(data.highF) |-> f2c(data.highF[i])]
            ELSE [i \in 1..Len(data.highF) |-> 10 * data.highF[i]],
   layout |-> computeLayout(media)]

drawPrecip(u, media, data) ==
  [unitLabel |-> IF u = "metric" THEN "mm" ELSE "in",
   vals |-> IF u = "metric" THEN [i \in 1..Len(data.precipIn) |-> in2mm(data.precipIn[i])]
            ELSE data.precipIn,
   layout |-> computeLayout(media)]

\* drawActive: only the chart of the active panel is drawn again.
drawActive(cl) ==
  IF cl.active = "temps"
  THEN [cl EXCEPT !.drawn["temps"] = drawTemps(cl.units, cl.media, cl.data)]
  ELSE [cl EXCEPT !.drawn["precip"] = drawPrecip(cl.units, cl.media, cl.data)]

ClimateData ==
  { [highF |-> <<50, 68>>, precipIn |-> <<1, 2>>],
    [highF |-> <<32, 59>>, precipIn |-> <<3, 0>>] }

\* State when render(container, data, opts) returns: both charts drawn with
\* options.unitsDefault, the temperatures panel active.
InitClimate ==
  /\ MapOff
  /\ loader = Idle
  /\ grouping = Idle
  /\ \E u \in {"imperial", "metric"}, media \in Medias, data \in ClimateData :
       climate = [on |-> TRUE, units |-> u, active |-> "temps", media |-> media, data |-> data,
                  drawn |-> [p \in Panels |-> IF p = "temps" THEN drawTemps(u, media, data)
                                              ELSE drawPrecip(u, media, data)]]

\* change event of a units radio button
UnitsChange(v) ==
  /\ climate.on
  /\ v # climate.units
  /\ climate' = drawActive([climate EXCEPT !.units = v])
  /\ UNCHANGED <<mapVars, loader, grouping>>

\* click on a tab: activate(which)
Activate(which) ==
  /\ climate.on
  /\ climate' = [climate EXCEPT !.active = which]
  /\ UNCHANGED <<mapVars, loader, grouping>>

\* resize of the window to the viewport class media: drawActive()
Resize(media) ==
  /\ climate.on
  /\ climate' = drawActive([climate EXCEPT !.media = media])
  /\ UNCHANGED <<mapVars, loader, grouping>>

NextClimate ==
  \/ \E v \in {"imperial", "metric"} : UnitsChange(v)
  \/ \E which \in Panels : Activate(which)
  \/ \E media \in Medias : Resize(media)

SpecClimate == InitClimate /\ [][NextClimate]_vars

(* ------------------------ groupConsecutiveMonths ----------------------- *)
Dec == 11

\* Array.from(new Set(nums)).sort((a,b)=>a-b)
RECURSIVE SortedSeq(_)
SortedSeq(S) ==
  IF S = {} THEN <<>>
  ELSE LET m == CHOOSE x \in S : \A y \in S : x <= y
       IN <<m>> \o SortedSeq(S \ {m})

UniqueSorted(nums) == SortedSeq({ nums[i] : i \in 1..Len(nums) })

\* The for loop: groups and cur after the elements 2..i of arr.
RECURSIVE RunGroups(_, _)
RunGroups(arr, i) ==
  IF i = 1 THEN [groups |-> <<>>, cur |-> <<arr[1]>>]
  ELSE LET prev == RunGroups(arr, i - 1)
       IN IF arr[i] = arr[i - 1] + 1
          THEN [groups |-> prev.groups, cur |-> Append(prev.cur, arr[i])]
          ELSE [groups |-> Append(prev.groups, prev.cur), cur |-> <<arr[i]>>]

\* The result is [threw, groups]: threw is TRUE when the call ends in a
\* TypeError (last is undefined after groups.pop() on an emptied array).
groupConsecutiveMonths(nums) ==
  IF Len(nums) = 0 THEN [threw |-> FALSE, groups |-> <<>>]
  ELSE LET arr == UniqueSorted(nums)
           run == RunGroups(arr, Len(arr))
           groups == Append(run.groups, run.cur)
       IN IF arr[1] = 0 /\ arr[Len(arr)] = Dec
          THEN LET first == groups[1]
                   rest == Tail(groups)
               IN IF Len(rest) = 0
                  THEN [threw |-> TRUE, groups |-> <<>>]
                  ELSE [threw |-> FALSE,
                        groups |-> <<rest[Len(rest)] \o first>> \o SubSeq(rest, 1, Len(rest) - 1)]
          ELSE [threw |-> FALSE, groups |-> groups]

RECURSIVE Reverse(_)
Reverse(q) == IF q = <<>> THEN <<>> ELSE Append(Reverse(Tail(q)), Head(q))

\* The month lists passed as wetMonths / dryMonths: every set of months, in
\* ascending order or in descending order with its first month repeated.
MonthLists ==
  UNION { { SortedSeq(S), Append(Reverse(SortedSeq(S)), CHOOSE x \in S : TRUE) } :
            S \in (SUBSET (0..Dec)) \ {{}} } \cup { <<>> }

InitMonths ==
  /\ MapOff
  /\ loader = Idle
  /\ climate = Idle
  /\ \E nums \in MonthLists :
       grouping = [on |-> TRUE, st |-> "called", nums |-> nums, threw |-> FALSE, groups |-> <<>>]

\* drawSeasonBands: groupConsecutiveMonths(arr) returns or throws.
Group ==
  /\ grouping.on
  /\ grouping.st = "called"
  /\ LET r == groupConsecutiveMonths(grouping.nums)
     IN grouping' = [grouping EXCEPT !.st = "done", !.threw = r.threw, !.groups = r.groups]
  /\ UNCHANGED <<mapVars, loader, climate>>

NextMonths == Group

SpecMonths == InitMonths /\ [][NextMonths]_vars

(* ------------------------------ properties ----------------------------- *)
Ready == pc = "ready"

Moved == pc = "ready" /\ query # NoQuery

Indices(a) == 0..(Len(a) - 1)

NonDecreasing(d) == Len(d) >= 1 /\ At(d, 0) = 0 /\ \A i \in Indices(d) : i >= 1 => At(d, i - 1) <= At(d, i)

StrictlyIncreasing(d) == \A i \in Indices(d) : i >= 1 => At(d, i - 1) < At(d, i)

\* JavaScript ===/== on numbers: NaN equals nothing.
FEq(a, b) == a.k # "nan" /\ b.k # "nan" /\ a = b

Gap(d, i, q) == Abs(At(d, i) - q)

Nearest(d, i, q) == \A j \in Indices(d) : Gap(d, i, q) <= Gap(d, j, q)

\* Number of track points in the first s segments of the document.
RECURSIVE PtsThrough(_, _)
PtsThrough(doc, s) == IF s = 0 THEN 0 ELSE PtsThrough(doc, s - 1) + Len(doc[s])

NPts(doc) == PtsThrough(doc, Len(doc))

\* The raw elevation reading of the flat point i (0-based) of the document.
RECURSIVE RawReadings(_, _)
RawReadings(doc, s) ==
  IF s = 0 THEN <<>> ELSE RawReadings(doc, s - 1) \o [j \in 1..Len(doc[s]) |-> doc[s][j].ele]

ReadingAt(doc, i) == At(RawReadings(doc, Len(doc)), i)

\* C1: after a move over a non-decreasing series starting at 0, with the
\* query q in [0, totalDistance], no index is nearer to q than the returned
\* index.
C1_LocatorNearest ==
  (Moved /\ NonDecreasing(series.distMi) /\ query >= 0 /\ query <= series.totalMi)
    => (idx \in Indices(series.distMi) /\ Nearest(series.distMi, idx, query))

\* A query strictly between two interior points, nearer to the upper one.
C1_Witness ==
  /\ Moved
  /\ Len(series.distMi) >= 3
  /\ idx >= 1
  /\ idx < Len(series.distMi) - 1
  /\ At(series.distMi, idx) > query
  /\ At(series.distMi, idx - 1) < query

\* C2 as stated: among the indices at the minimal distance from q the
\* locator returns the lowest one, repeated distances included.
C2_LowestOfTied ==
  (Moved /\ NonDecreasing(series.distMi))
    => \A j \in Indices(series.distMi) : Nearest(series.distMi, j, query) => idx <= j

\* C2 amended: among the indices at the minimal distance from q the locator
\* returns one with the lowest cumulative distance; it is the lowest index
\* with that distance when the distance is >= q, the highest one when the
\* distance is < q, and so the lowest tied index of a strictly increasing
\* series.
C2_TieBreak ==
  (Moved /\ NonDecreasing(series.distMi))
    => /\ Nearest(series.distMi, idx, query)
       /\ \A j \in Indices(series.distMi) :
            Nearest(series.distMi, j, query)
              => /\ At(series.distMi, idx) <= At(series.distMi, j)
                 /\ (At(series.distMi, idx) >= query => idx <= j)
                 /\ ((At(series.distMi, idx) < query /\ At(series.distMi, j) = At(series.distMi, idx))
                       => j <= idx)
                 /\ (StrictlyIncreasing(series.distMi) => idx <= j)

\* An exact tie between two different distances, the lower of which is
\* repeated: a lower index than the returned one is equally near.
C2_Witness ==
  /\ Moved
  /\ \E j, k \in Indices(series.distMi) :
       /\ Nearest(series.distMi, j, query)
       /\ Nearest(series.distMi, k, query)
       /\ j < idx
       /\ At(series.distMi, k) > At(series.distMi, idx)

\* C3 as stated: a query equal to totalDistance returns the last index N-1,
\* also when trailing points have zero distance between them.
C3_TotalGivesLast ==
  (Moved /\ Len(series.pts) >= 1 /\ query = series.totalMi) => idx = Len(series.pts) - 1

\* C3 amended: a query equal to totalDistance returns the lowest index whose
\* cumulative distance equals totalDistance; this is the last index N-1
\* when N = 1 or the last step has a positive length.
C3_TotalGivesFirstAtTotal ==
  (Moved /\ Len(series.pts) >= 1 /\ query = series.totalMi)
    => /\ idx \in Indices(series.distMi)
       /\ At(series.distMi, idx) = series.totalMi
       /\ \A j \in Indices(series.distMi) : At(series.distMi, j) = series.totalMi => idx <= j
       /\ ((Len(series.pts) = 1
             \/ At(series.distMi, Len(series.pts) - 2) < At(series.distMi, Len(series.pts) - 1))
            => idx = Len(series.pts) - 1)

\* A track of positive length whose last step has length zero, queried at
\* its total distance.
C3_Witness ==
  /\ Moved
  /\ Len(series.pts) >= 3
  /\ series.totalMi > 0
  /\ query = series.totalMi
  /\ At(series.distMi, Len(series.pts) - 2) = series.totalMi
  /\ idx < Len(series.pts) - 1

\* C4: whenever stage markers are emitted for a document with at least one
\* segment, exactly one of them has isFinal = true and it is the last one
\* in emission order, also when a leading segment-ending index is filtered
\* out.
C4_OneFinalMarkerLast ==
  (Ready /\ Len(gpx) >= 1 /\ Len(series.stageScatter) >= 1)
    => /\ series.stageScatter[Len(series.stageScatter)].isFinal
       /\ \A s \in 1..(Len(series.stageScatter) - 1) : ~series.stageScatter[s].isFinal

\* C5 as stated: the number of markers is the number of segments, minus 1
\* if the first segment-ending index is 0.
C5_MarkerCountFirstOnly ==
  (Ready /\ Len(gpx) >= 1)
    => Len(series.stageScatter) = Len(gpx) - (IF PtsThrough(gpx, 1) - 1 = 0 THEN 1 ELSE 0)

\* C5 amended: the number of markers is the number of segments whose ending
\* index is greater than 0, that is the segments up to whose end the
\* document holds at least two points.
C5_MarkerCount ==
  (Ready /\ Len(gpx) >= 1)
    => Len(series.stageScatter) = Cardinality({ s \in 1..Len(gpx) : PtsThrough(gpx, s) >= 2 })

\* A one-point leading segment followed by an empty segment and a segment
\* with points: two segment ends are filtered out.
C5_Witness ==
  /\ Ready
  /\ Len(gpx) = 3
  /\ Len(gpx[1]) = 1
  /\ Len(gpx[2]) = 0
  /\ Len(gpx[3]) >= 1
  /\ Len(series.stageScatter) = 1

IsScenarioB(doc) == Len(doc) = 3 /\ Len(doc[1]) = 5 /\ Len(doc[2]) = 4 /\ Len(doc[3]) = 3

\* C6 as stated: the 5/4/3 track yields exactly 2 stage markers, at the
\* flat indices 4 and 8, the second one final.
C6_TwoMarkers ==
  (Ready /\ IsScenarioB(gpx))
    => /\ Len(series.stageScatter) = 2
       /\ series.stageScatter[1].x = At(series.distMi, 4)
       /\ series.stageScatter[2].x = At(series.distMi, 8)
       /\ series.stageScatter[2].isFinal

\* C6 amended: the 5/4/3 track yields exactly 3 stage markers, at the flat
\* indices 4, 8 and 11, and only the third one is final.
C6_ThreeMarkers ==
  (Ready /\ IsScenarioB(gpx))
    => series.stageScatter =
         << [x |-> At(series.distMi, 4), y |-> At(series.elevFt, 4), isFinal |-> FALSE],
            [x |-> At(series.distMi, 8), y |-> At(series.elevFt, 8), isFinal |-> FALSE],
            [x |-> At(series.distMi, 11), y |-> At(series.elevFt, 11), isFinal |-> TRUE] >>

C6_Witness == Ready /\ IsScenarioB(gpx) /\ Len(series.pts) = 12 /\ Len(series.stageScatter) = 3

\* C7: every Series that parseGPXToSeries returns has elevationSeries,
\* points and cumulativeDistance of the same length.
C7_EqualLengths ==
  Ready => (Len(series.elevFt) = Len(series.pts) /\ Len(series.pts) = Len(series.distMi))

\* C8: a document with segments but no track points never produces a
\* Series: every Series the pointer handlers work on has at least one point.
C8_NoSeriesWithoutPoints ==
  /\ (Len(gpx) >= 1 /\ NPts(gpx) = 0) => pc # "ready"
  /\ Ready => Len(series.pts) >= 1

\* C9: for every index k > 0 whose reading is missing or non-numeric while
\* all other readings are finite, elevationSeries[k] = elevationSeries[k-1].
C9_CarryForward ==
  Ready =>
    \A k \in 1..(NPts(gpx) - 1) :
      (/\ ReadingAt(gpx, k).k \in {"none", "text"}
       /\ \A i \in 0..(NPts(gpx) - 1) : i # k => ReadingAt(gpx, i).k = "num")
        => FEq(At(series.elevFt, k), At(series.elevFt, k - 1))

\* C10: when point 0 has a non-finite reading, elevationSeries[0] = 0 and
\* no non-finite value appears in elevationSeries.
C10_FirstNonFiniteIsZero ==
  (Ready /\ NPts(gpx) >= 1 /\ ReadingAt(gpx, 0).k \in {"text", "inf"})
    => /\ At(series.elevFt, 0) = Num(0)
       /\ \A i \in Indices(series.elevFt) : isFinite(At(series.elevFt, i))

\* C11: every error raised during createPilgrimMap (a dependency that fails
\* to load, a failed fetch, an unparsable document) is caught and shown in
\* the error region: the call never ends as a rejection, and once it has
\* ended on an error the error region holds a message.
C11_ErrorsCaughtAndShown ==
  /\ result # "rejected"
  /\ (pc \in {"failed", "fetchError", "rejected"}) => errBox # ""

\* C12: when the fetched document has no segments, the load fails, the
\* error region shows a message, and the call returns no live map and no
\* chart, with no pointer handler attached.
C12_EmptyDocLeavesNothing ==
  (result = "returned" /\ pc # "fetchError" /\ Len(gpx) = 0)
    => /\ pc = "failed"
       /\ errBox = "Map/Elevation error: No <trk> in GPX"
       /\ ~map
       /\ ~chart.built

\* C13: a click that arrives while there is no active position (before the
\* first move, or after a leave with no later move) issues no panTo: the
\* view of the map stays as it is.
C13_ClickWithoutPositionIsNoOp ==
  [][(Click /\ activeEls = <<>>) => mapView' = mapView]_vars

\* C14: at all times the map marker is visible exactly when the chart has a
\* highlighted point; then the marker sits at points[i] and the chart
\* highlights index i of dataset 0, i being the locator's result for the
\* last move; a leave clears both and keeps an existing marker (hidden).
C14_LockStepInv ==
  /\ (cursorMarker.made /\ cursorMarker.opacity = 1) <=> (activeEls # <<>>)
  /\ ~cursorMarker.made => cursorMarker.opacity = 0
  /\ activeEls # <<>>
       => /\ Len(activeEls) = 1
          /\ activeEls[1].datasetIndex = 0
          /\ activeEls[1].index = idx
          /\ idx \in Indices(series.pts)
          /\ query # NoQuery
          /\ cursorMarker.ll = <<At(series.pts, idx).lat, At(series.pts, idx).lon>>

C14_LockStep ==
  /\ []C14_LockStepInv
  /\ [][Leave => (/\ activeEls' = <<>>
                  /\ cursorMarker'.opacity = 0
                  /\ cursorMarker'.made = cursorMarker.made
                  /\ cursorMarker'.ll = cursorMarker.ll)]_vars

\* After a move and a leave: the marker exists, hidden, and nothing is
\* highlighted.
C14_Witness ==
  /\ Moved
  /\ Len(series.pts) >= 2
  /\ idx >= 1
  /\ cursorMarker.made
  /\ cursorMarker.opacity = 0
  /\ activeEls = <<>>

\* C15: the profile is built and labelled in the units given at
\* construction: kilometres and metres for units = "metric", miles and feet
\* for units = "imperial".
C15_UnitsOptionHonoured ==
  Ready =>
    /\ units = "imperial"
         => /\ chart.xTitle = "Distance (mi)"
            /\ chart.yTitle = "Elevation (ft)"
    /\ units = "metric"
         => /\ chart.xTitle = "Distance (km)"
            /\ chart.yTitle = "Elevation (m)"
            /\ (Len(series.pts) >= 1 /\ isFinite(At(series.pts, 0).ele))
                 => At(series.elevFt, 0) = At(series.pts, 0).ele

\* C17: under any interleaving of creation calls at most one script element
\* is ever appended per library key, a call is fulfilled only when all the
\* scripts it asked for have loaded and rejected only when one of them has
\* failed, and a failed load stays failed: no further element is appended
\* for its key.
C17_OneScriptInv ==
  loader.on =>
    /\ \A k \in LibKeys : /\ loader.appended[k] <= 1
                          /\ (loader.appended[k] = 1) <=> (loader.cache[k] # "none")
    /\ \A c \in Calls :
         /\ loader.calls[c].st = "resolved" => \A k \in loader.calls[c].keys : loader.cache[k] = "loaded"
         /\ loader.calls[c].st = "rejected" => \E k \in loader.calls[c].keys : loader.cache[k] = "failed"
         /\ loader.calls[c].st = "waiting" => \A k \in loader.calls[c].keys : loader.cache[k] # "none"

C17_LoadScriptOnce ==
  /\ []C17_OneScriptInv
  /\ [][loader.on => \A k \in LibKeys :
          loader.cache[k] = "failed"
            => (loader'.cache[k] = "failed" /\ loader'.appended[k] = loader.appended[k])]_vars

\* The load of leaflet has failed once: two calls are rejected on the one
\* cached promise, one script element was appended, a further call may start.
C17_Witness ==
  /\ loader.on
  /\ loader.cache["leaflet"] = "failed"
  /\ loader.appended["leaflet"] = 1
  /\ \E c, d \in Calls : /\ c # d
                         /\ loader.calls[c].st = "rejected"
                         /\ loader.calls[d].st = "rejected"
  /\ \E c \in Calls : loader.calls[c].st = "idle"

\* C16: after any sequence of unit changes, tab activations and resizes the
\* chart that the active panel shows is drawn in the selected units.
C16_ActiveChartInSelectedUnits ==
  climate.on =>
    LET shown == climate.drawn[climate.active]
        fresh == IF climate.active = "temps"
                 THEN drawTemps(climate.units, climate.media, climate.data)
                 ELSE drawPrecip(climate.units, climate.media, climate.data)
    IN shown.unitLabel = fresh.unitLabel /\ shown.vals = fresh.vals

GroupMonths(g) == { g[i] : i \in 1..Len(g) }

\* C18: for every non-empty list of months 0..11 the call returns without
\* throwing; the groups are disjoint and cover the distinct months of the
\* list; each group runs through cyclically consecutive months; December
\* and January, when both are in the list, are in the same group.
C18_GroupsPartitionMonths ==
  (grouping.on /\ grouping.st = "done" /\ Len(grouping.nums) >= 1)
    => /\ ~grouping.threw
       /\ UNION { GroupMonths(grouping.groups[j]) : j \in 1..Len(grouping.groups) }
            = { grouping.nums[i] : i \in 1..Len(grouping.nums) }
       /\ \A j, k \in 1..Len(grouping.groups) :
            j # k => GroupMonths(grouping.groups[j]) \cap GroupMonths(grouping.groups[k]) = {}
       /\ \A j \in 1..Len(grouping.groups) :
            LET g == grouping.groups[j]
            IN /\ Len(g) >= 1
               /\ Cardinality(GroupMonths(g)) = Len(g)
               /\ \A i \in 2..Len(g) : g[i] = (g[i - 1] + 1) % (Dec + 1)
       /\ (\E i, j \in 1..Len(grouping.nums) : grouping.nums[i] = 0 /\ grouping.nums[j] = Dec)
            => \E j \in 1..Len(grouping.groups) : {0, Dec} \subseteq GroupMonths(grouping.groups[j])

====
